---- MODULE Spec2Model ----
(***************************************************************************)
(* Model of punch's command line driver, punch/cli.py: one run of main()   *)
(* as a sequential state machine.  Each action is one block of main(); the *)
(* collaborators main() calls (configuration reader, version store,        *)
(* actions, file updater, repository use case) are modelled by the         *)
(* outcomes they can hand back to main().  `log` is the observable trace   *)
(* of the run: every collaborator call and every line main() prints.       *)
(***************************************************************************)
EXTENDS Integers, Sequences, FiniteSets, TLC

VARIABLES argv, args, config, current_version, new_version, action_dict,
          vcs_configuration, repo, file_i, version_file, pc, status, log

vars == <<argv, args, config, current_version, new_version, action_dict,
          vcs_configuration, repo, file_i, version_file, pc, status, log>>

(* ------------------------------ bounds --------------------------------- *)
\* Largest number of entries of config.files.
MaxFiles == 2
\* Largest number of name=value pairs in --set-part / --action-options.
MaxSetParts == 2

(* --------------------------- version data ------------------------------ *)
\* VERSION of the default configuration file.
Parts == <<"major", "minor", "patch">>

PartNames == {Parts[i] : i \in 1..Len(Parts)}

PartIdx(name) == CHOOSE i \in 1..Len(Parts) : Parts[i] = name

\* The default version file, and a version with every part set.
default_version_file_content == [major |-> 0, minor |-> 1, patch |-> 0]

VersionFiles == {default_version_file_content, [major |-> 1, minor |-> 1, patch |-> 1]}

\* "no value": config = None, repo = None, a version not loaded yet.
None == "None"

NoVersion == [major |-> -1, minor |-> -1, patch |-> -1]

EmptyDict == [k \in {} |-> ""]

(* ----------------------------- the trace ------------------------------- *)
Ev(op, f) == [op |-> op, file |-> f]

Ops(l) == {l[i].op : i \in 1..Len(l)}

Count(l, op) == Cardinality({i \in 1..Len(l) : l[i].op = op})

\* position of the first event `op` about file f; 0 when there is none
Pos(l, op, f) ==
    LET S == {i \in 1..Len(l) : l[i] = Ev(op, f)}
    IN IF S = {} THEN 0 ELSE CHOOSE i \in S : \A j \in S : i <= j

Terminated == pc \in {"exit", "raised", "done"}

(* ----------------------------- inputs ---------------------------------- *)
\* An option string "k1=v1,k2=v2" is the sequence of its <<key, value>> items.
AllPairs == << <<"minor", "2">>, <<"major", "2">>, <<"patch", "2">> >>

OptStrs == {SubSeq(AllPairs, 1, n) : n \in 0..MaxSetParts}

ArgSpace ==
    [version : BOOLEAN, init : BOOLEAN, simulate : BOOLEAN, verbose : BOOLEAN,
     part : {"", "minor"}, set_part : OptStrs,
     action : {"", "punch:set", "custom"},
     action_options : {<< >>, SubSeq(AllPairs, 1, MaxSetParts)},
     reset_on_set : BOOLEAN]

\* config.actions: the built-in actions, alone or with an entry "custom"
\* that lacks the 'type' field, or has it and names a part that is not
\* declared.
DefaultActions ==
    ("punch:increase" :> ("type" :> "increase")) @@ ("punch:set" :> ("type" :> "set"))

ActionTables ==
    { DefaultActions,
      DefaultActions @@ ("custom" :> ("part" :> "patch")),
      DefaultActions @@ ("custom" :> (("type" :> "increase") @@ ("part" :> "build"))) }

VcsNames == {None, "git", "git-flow", "hg"}

ConfigSpace == [files : 0..MaxFiles, actions : ActionTables, vcs : VcsNames]

NoConfig == [files |-> 0, actions |-> EmptyDict, vcs |-> None]

(* ------------------------ helpers of main() ---------------------------- *)
\* fatal_error: print the message and sys.exit(1).  `l` is the trace so far.
fatal_error(l, message) ==
    /\ log' = Append(l, Ev(message, 0))
    /\ pc' = "exit"
    /\ status' = 1

\* An exception nobody catches leaves main(): traceback, exit status 1.
uncaught(l) ==
    /\ log' = Append(l, Ev("raise", 0))
    /\ pc' = "raised"
    /\ status' = 1

\* sys.exit(0) after printing `message`.
exit_zero(l, message) ==
    /\ log' = Append(l, Ev(message, 0))
    /\ pc' = "exit"
    /\ status' = 0

\* hlp.optstr2dict: "k1=v1,k2=v2" -> {k1: v1, k2: v2}; a later item wins.
optstr2dict(optstr) ==
    [k \in {optstr[i][1] : i \in 1..Len(optstr)} |->
        LET last == CHOOSE i \in 1..Len(optstr) :
                        /\ optstr[i][1] = k
                        /\ \A j \in (i+1)..Len(optstr) : optstr[j][1] # k
        IN optstr[last][2]]

\* dict.pop(key) as the dictionary that is left.
DictPop(d, key) == [k \in DOMAIN d \ {key} |-> d[k]]

\* d.update(e) as the dictionary that results.
DictUpdate(d, e) == e @@ d

\* int("2") = 2
StrToInt(str) == CASE str = "0" -> 0 [] str = "1" -> 1 [] str = "2" -> 2

(* --------------------- actions (punch.action_register) ----------------- *)
\* Increase: add one to the part, reset every later part; fails when the
\* part is not declared.
IncreaseAction(d, v) ==
    IF "part" \notin DOMAIN d \/ d["part"] \notin PartNames
    THEN [ok |-> FALSE, version |-> v]
    ELSE LET n == PartIdx(d["part"]) IN
         [ok |-> TRUE,
          version |-> [p \in PartNames |->
                         IF PartIdx(p) < n THEN v[p]
                         ELSE IF PartIdx(p) = n THEN v[p] + 1 ELSE 0]]

\* Set: give every named part its value; with reset_on_set exactly one part
\* may be named and every later part is reset.
SetAction(d, v) ==
    LET targets == DOMAIN d \cap PartNames
        reset   == "reset_on_set" \in DOMAIN d
    IN IF reset /\ Cardinality(targets) > 1
       THEN [ok |-> FALSE, version |-> v]
       ELSE [ok |-> TRUE,
             version |-> [p \in PartNames |->
                            IF p \in targets THEN StrToInt(d[p])
                            ELSE IF reset /\ \E t \in targets : PartIdx(t) < PartIdx(p)
                                 THEN 0 ELSE v[p]]]

\* ActionRegister.get(name)(action_dict).process_version(version)
process_version(action_name, d, v) ==
    IF action_name = "increase" THEN IncreaseAction(d, v) ELSE SetAction(d, v)

(* ------------------------------ main() --------------------------------- *)
Init ==
    /\ argv \in ArgSpace
    /\ args = argv
    /\ config = NoConfig
    /\ repo = None
    /\ current_version = NoVersion
    /\ new_version = NoVersion
    /\ action_dict = EmptyDict
    /\ vcs_configuration = None
    /\ file_i = 1
    /\ version_file \in VersionFiles
    /\ pc = "start"
    /\ status = -1
    /\ log = << >>

\* if args.version is True: print the banner lines, sys.exit(0)
ShowVersion ==
    /\ pc = "start"
    /\ args.version
    /\ exit_zero(log, "print_punch_version")
    /\ UNCHANGED <<argv, args, config, current_version, new_version, action_dict,
                   vcs_configuration, repo, file_i, version_file>>

\* if args.simulate: args.verbose = True
simulate_implies_verbose(a) == [a EXCEPT !.verbose = a.simulate \/ a.verbose]

\* --init: write the default files that do not exist yet, sys.exit(0)
InitFiles ==
    /\ pc = "start"
    /\ ~args.version
    /\ args.init
    /\ args' = simulate_implies_verbose(args)
    /\ \E config_exists, version_exists \in BOOLEAN :
          LET l1 == IF config_exists THEN log
                    ELSE Append(log, Ev("write_default_config_file", 0))
              l2 == IF version_exists THEN l1
                    ELSE Append(l1, Ev("write_default_version_file", 0))
          IN /\ log' = l2
             /\ pc' = "exit"
             /\ status' = 0
    /\ UNCHANGED <<argv, config, current_version, new_version, action_dict,
                   vcs_configuration, repo, file_i, version_file>>

\* the check of --set-part against --reset-on-set
reset_on_set_conflict(a) ==
    /\ a.set_part # << >>
    /\ a.reset_on_set
    /\ LET set_parts == a.set_part IN Len(set_parts) > 1

\* the argument checks, up to the "## Punch version" line
ValidateArgs ==
    /\ pc = "start"
    /\ ~args.version
    /\ ~args.init
    /\ LET a == simulate_implies_verbose(args) IN
        /\ args' = a
        /\ IF a.part = "" /\ a.set_part = << >> /\ a.action = ""
           THEN fatal_error(log, "fatal_no_action")
           ELSE IF reset_on_set_conflict(a)
           THEN fatal_error(log, "fatal_reset_on_set")
           ELSE /\ log' = IF a.verbose THEN Append(log, Ev("print_banner", 0)) ELSE log
                /\ pc' = "config"
                /\ status' = status
    /\ UNCHANGED <<argv, config, current_version, new_version, action_dict,
                   vcs_configuration, repo, file_i, version_file>>

\* config = cfr.PunchConfig(args.config_file) and the check of config.files
LoadConfig ==
    /\ pc = "config"
    /\ LET l == Append(log, Ev("PunchConfig", 0)) IN
       \/ /\ fatal_error(l, "fatal_config")
          /\ UNCHANGED config
       \/ \E c \in ConfigSpace :
            /\ config' = c
            /\ IF ~args.simulate /\ c.files = 0
               THEN fatal_error(l, "fatal_no_files")
               ELSE /\ log' = l
                    /\ pc' = "version"
                    /\ status' = status
    /\ UNCHANGED <<argv, args, current_version, new_version, action_dict,
                   vcs_configuration, repo, file_i, version_file>>

\* current_version = Version.from_file(...); new_version = current_version.copy()
LoadVersion ==
    /\ pc = "version"
    /\ LET l == Append(log, Ev("from_file", 0)) IN
       \/ /\ uncaught(l)
          /\ UNCHANGED <<current_version, new_version>>
       \/ /\ current_version' = version_file
          /\ new_version' = version_file
          /\ log' = l
          /\ pc' = "select"
          /\ status' = status
    /\ UNCHANGED <<argv, args, config, action_dict,
                   vcs_configuration, repo, file_i, version_file>>

\* the two rewrites in the other order: --part wins over --set-part
select_action_part_last(a) ==
    LET a1 == IF a.set_part # << >>
              THEN [a EXCEPT !.action = "punch:set", !.action_options = a.set_part]
              ELSE a
    IN IF a1.part # ""
       THEN [a1 EXCEPT !.action = "punch:increase",
                       !.action_options = << <<"part", a1.part>> >>]
       ELSE a1

\* --part and --set-part rewritten as an action with its options
select_action(a) ==
    LET a1 == IF a.part # ""
              THEN [a EXCEPT !.action = "punch:increase",
                             !.action_options = << <<"part", a.part>> >>]
              ELSE a
    IN IF a1.set_part # << >>
       THEN [a1 EXCEPT !.action = "punch:set", !.action_options = a1.set_part]
       ELSE a1

SelectAction ==
    /\ pc = "select"
    /\ args' = select_action(args)
    /\ pc' = "action"
    /\ UNCHANGED <<argv, config, current_version, new_version, action_dict,
                   vcs_configuration, repo, file_i, version_file, status, log>>

\* the dictionary handed to the action's constructor
build_action_dict(a, actions) ==
    LET popped == DictPop(actions[a.action], "type") IN
    IF a.action_options # << >>
    THEN DictUpdate(popped, optstr2dict(a.action_options))
    ELSE popped

\* if args.action: look the action up, build it, new_version = process_version(...)
ApplyAction ==
    /\ pc = "action"
    /\ IF args.action = ""
       THEN /\ pc' = "render"
            /\ UNCHANGED <<config, new_version, action_dict, status, log>>
       ELSE IF args.action \notin DOMAIN config.actions
       THEN /\ exit_zero(log, "print_action_not_defined")
            /\ UNCHANGED <<config, new_version, action_dict>>
       ELSE IF "type" \notin DOMAIN config.actions[args.action]
       THEN /\ exit_zero(log, "print_missing_type")
            /\ UNCHANGED <<config, new_version, action_dict>>
       ELSE LET action_name == config.actions[args.action]["type"]
                d == build_action_dict(args, config.actions)
                r == process_version(action_name, d, new_version)
                l == Append(log, Ev("process_version", 0))
            IN /\ action_dict' = d
               /\ config' = [config EXCEPT !.actions[args.action] = d]
               /\ IF r.ok
                  THEN /\ new_version' = r.version
                       /\ log' = l
                       /\ pc' = "render"
                       /\ status' = status
                  ELSE /\ uncaught(l)
                       /\ UNCHANGED new_version
    /\ UNCHANGED <<argv, args, current_version,
                   vcs_configuration, repo, file_i, version_file>>

\* the main serializer and vcs_configuration
Render ==
    /\ pc = "render"
    /\ log' = Append(log, Ev("run_main_serializer", 0))
    /\ vcs_configuration' = config.vcs
    /\ pc' = "summary"
    /\ UNCHANGED <<argv, args, config, current_version, new_version, action_dict,
                   repo, file_i, version_file, status>>

\* what the block under "if args.verbose:" calls and prints
verbose_report(a, nfiles, vcs) ==
    IF a.verbose
    THEN << Ev("show_current_version", 0), Ev("show_new_version", 0),
            Ev("run_all_serializers", 0) >>
         \o [i \in 1..nfiles |-> Ev("get_summary", i)]
         \o (IF vcs # None THEN << Ev("show_vcs_configuration", 0) >> ELSE << >>)
    ELSE << >>

Summary ==
    /\ pc = "summary"
    /\ log' = log \o verbose_report(args, config.files, vcs_configuration)
    /\ pc' = "repo"
    /\ UNCHANGED <<argv, args, config, current_version, new_version, action_dict,
                   vcs_configuration, repo, file_i, version_file, status>>

\* the guard left out
writes_enabled_always(a) == TRUE

\* the guard "if not args.simulate:" over everything that writes
writes_enabled(a) == ~a.simulate

\* a simulated run ends here
SimulatedEnd ==
    /\ pc = "repo"
    /\ ~writes_enabled(args)
    /\ pc' = "done"
    /\ status' = 0
    /\ UNCHANGED <<argv, args, config, current_version, new_version, action_dict,
                   vcs_configuration, repo, file_i, version_file, log>>

\* repo = repo_class(os.getcwd(), vcs_configuration)
InitRepo ==
    /\ pc = "repo"
    /\ writes_enabled(args)
    /\ IF vcs_configuration # None
       THEN IF vcs_configuration \notin {"git", "git-flow"}
            THEN /\ fatal_error(log, "fatal_vcs_not_supported")
                 /\ UNCHANGED repo
            ELSE LET l == Append(log, Ev("repo_class", 0)) IN
                 \/ /\ fatal_error(l, "fatal_repo_init")
                    /\ UNCHANGED repo
                 \/ /\ repo' = vcs_configuration
                    /\ log' = l
                    /\ pc' = "pre_start_release"
                    /\ status' = status
       ELSE /\ repo' = None
            /\ pc' = "update"
            /\ UNCHANGED <<status, log>>
    /\ UNCHANGED <<argv, args, config, current_version, new_version, action_dict,
                   vcs_configuration, file_i, version_file>>

\* a handler that reports the failure and lets main() go on
lifecycle_failed_swallowed(l, next) ==
    /\ log' = Append(l, Ev("raise", 0))
    /\ pc' = next
    /\ status' = IF next = "done" THEN 0 ELSE status

\* a lifecycle call of the use case that raises: nothing in main() catches it
lifecycle_failed(l, next) == uncaught(l)

\* one call uc.<op>(): it returns and main() goes on to `next`, or it raises
lifecycle_call(op, next) ==
    LET l == Append(log, Ev(op, 0)) IN
    \/ /\ log' = l
       /\ pc' = next
       /\ status' = IF next = "done" THEN 0 ELSE status
    \/ lifecycle_failed(l, next)

PreStartRelease ==
    /\ pc = "pre_start_release"
    /\ lifecycle_call("pre_start_release", "start_release")
    /\ UNCHANGED <<argv, args, config, current_version, new_version, action_dict,
                   vcs_configuration, repo, file_i, version_file>>

StartRelease ==
    /\ pc = "start_release"
    /\ lifecycle_call("start_release", "update")
    /\ UNCHANGED <<argv, args, config, current_version, new_version, action_dict,
                   vcs_configuration, repo, file_i, version_file>>

\* a handler that lets the ValueError end the run
value_error_aborts(l, i) ==
    /\ uncaught(l)
    /\ file_i' = i

\* a handler that swallows the ValueError without a word
value_error_silent(l, i) ==
    /\ log' = l
    /\ file_i' = i + 1
    /\ UNCHANGED <<pc, status>>

\* except ValueError as e: print("Warning:", e), and the loop goes on
value_error(l, i) ==
    /\ log' = Append(l, Ev("Warning", i))
    /\ file_i' = i + 1
    /\ UNCHANGED <<pc, status>>

\* one turn of "for file_configuration in config.files": updater.update(...)
\* returns, or raises ValueError (a pattern that is not in the file)
UpdateFile ==
    /\ pc = "update"
    /\ file_i <= config.files
    /\ LET l == Append(log, Ev("update", file_i)) IN
       \/ /\ log' = l
          /\ file_i' = file_i + 1
          /\ UNCHANGED <<pc, status>>
       \/ value_error(Append(l, Ev("ValueError", file_i)), file_i)
    /\ UNCHANGED <<argv, args, config, current_version, new_version, action_dict,
                   vcs_configuration, repo, version_file>>

\* the loop left one file early
loop_done_early(i, nfiles) == i >= nfiles

\* the for loop has gone through config.files
loop_done(i, nfiles) == i > nfiles

\* new_version.to_file(args.version_file)
ToFile ==
    /\ pc = "update"
    /\ loop_done(file_i, config.files)
    /\ log' = Append(log, Ev("to_file", 0))
    /\ version_file' = new_version
    /\ IF vcs_configuration # None
       THEN pc' = "finish_release" /\ status' = status
       ELSE pc' = "done" /\ status' = 0
    /\ UNCHANGED <<argv, args, config, current_version, new_version, action_dict,
                   vcs_configuration, repo, file_i>>

FinishRelease ==
    /\ pc = "finish_release"
    /\ lifecycle_call("finish_release", "post_finish_release")
    /\ UNCHANGED <<argv, args, config, current_version, new_version, action_dict,
                   vcs_configuration, repo, file_i, version_file>>

PostFinishRelease ==
    /\ pc = "post_finish_release"
    /\ lifecycle_call("post_finish_release", "done")
    /\ UNCHANGED <<argv, args, config, current_version, new_version, action_dict,
                   vcs_configuration, repo, file_i, version_file>>

Next ==
    \/ ShowVersion
    \/ InitFiles
    \/ ValidateArgs
    \/ LoadConfig
    \/ LoadVersion
    \/ SelectAction
    \/ ApplyAction
    \/ Render
    \/ Summary
    \/ SimulatedEnd
    \/ InitRepo
    \/ PreStartRelease
    \/ StartRelease
    \/ UpdateFile
    \/ ToFile
    \/ FinishRelease
    \/ PostFinishRelease

Spec == Init /\ [][Next]_vars

(* ------------------------- reading the trace --------------------------- *)
Mutations == {"update", "to_file"}

Lifecycle == {"pre_start_release", "start_release", "finish_release",
              "post_finish_release"}

Happened(op) == op \in Ops(log)

At(op) == Pos(log, op, 0)

\* the call was made and raised: the traceback is the next line of the trace
Failed(op) == At(op) > 0 /\ At(op) < Len(log) /\ log[At(op) + 1].op = "raise"

Completed(op) == At(op) > 0 /\ ~Failed(op)

UpdateAt(f) == Pos(log, "update", f)

(* ------------------------------- claims -------------------------------- *)

\* C1: in a run with --simulate no file is updated (no update call), the
\* version store is not written (no to_file call, and the store still holds
\* the loaded version), no lifecycle operation of the release use case is
\* invoked, and a run that reaches its end has called get_summary for every
\* configured file, in configured order.
C1_SimulationWritesNothing ==
    argv.simulate =>
        /\ \A i \in 1..Len(log) : log[i].op \notin Mutations \cup Lifecycle
        /\ current_version # NoVersion => version_file = current_version
        /\ pc = "done" =>
             \A f \in 1..config.files :
                 /\ Pos(log, "get_summary", f) > 0
                 /\ f > 1 => Pos(log, "get_summary", f - 1) < Pos(log, "get_summary", f)

\* C1 witness: a run with --simulate and without --verbose, with files and a
\* VCS configured, has ended after summarising the last file.
C1_Witness ==
    /\ argv.simulate /\ ~argv.verbose
    /\ pc = "done"
    /\ config.files = MaxFiles
    /\ config.vcs = "git"
    /\ Pos(log, "get_summary", config.files) > 0

\* C2: the lifecycle operations are invoked at most once each and in the
\* order pre_start_release, start_release, file updates, finish_release,
\* post_finish_release; each is invoked only after the one before it has
\* returned; a call that raises is the last thing the run does, so after a
\* failed pre_start_release or start_release neither finish_release nor
\* post_finish_release is invoked; a non-simulated run with a VCS that
\* reaches its end has gone through all of them.
C2_LifecycleOrder ==
    LET pre    == At("pre_start_release")
        start  == At("start_release")
        finish == At("finish_release")
        post   == At("post_finish_release")
        n      == Len(log)
        \* the call at position p returned
        ok(p)  == p > 0 /\ (p = n \/ log[p + 1].op # "raise")
    IN
    /\ \A op \in Lifecycle : Count(log, op) <= 1
    /\ \A i \in 1..n : log[i].op = "raise" => i = n
    /\ start > 0 => ok(pre) /\ pre < start
    /\ vcs_configuration # None =>
          \A i \in 1..n : log[i].op = "update" => ok(start) /\ start < i
    /\ finish > 0 =>
          /\ ok(start)
          /\ start < finish
          /\ \A f \in 1..config.files : start < UpdateAt(f) /\ UpdateAt(f) < finish
    /\ post > 0 => ok(finish) /\ finish < post
    /\ ((pre > 0 /\ ~ok(pre)) \/ (start > 0 /\ ~ok(start))) => finish = 0 /\ post = 0
    /\ (pc = "done" /\ ~argv.simulate /\ vcs_configuration # None) => ok(post)

\* C2 witness: a non-simulated run with a VCS and files has gone through the
\* whole release.
C2_Witness ==
    /\ pc = "done"
    /\ ~argv.simulate
    /\ vcs_configuration = "git-flow"
    /\ config.files = MaxFiles
    /\ Completed("post_finish_release")

\* C3: to_file is called at most once, and only after update has been called
\* once for every configured file, in configured order, the failed ones
\* included; no update follows it.
C3_ToFileAfterAllUpdates ==
    LET written == At("to_file")
        n       == Len(log)
    IN
    /\ Count(log, "to_file") <= 1
    /\ \A i \in 1..n :
          log[i].op = "update" =>
              /\ written = 0 \/ i < written
              /\ \A j \in (i + 1)..n : log[j].op = "update" => log[i].file < log[j].file
    /\ written > 0 =>
          \A f \in 1..config.files : 0 < UpdateAt(f) /\ UpdateAt(f) < written

\* C3 witness: the version has been written in a run whose first file failed
\* with a pattern mismatch.
C3_Witness ==
    /\ At("to_file") > 0
    /\ config.files = MaxFiles
    /\ Pos(log, "ValueError", 1) > 0

\* C4: when update raises ValueError for a file, the warning for that file
\* is printed, the loop goes on to the files after it, and the run goes on
\* to to_file and, with a VCS, to finish_release: it is never ended by the
\* mismatch.
C4_MismatchRecovered ==
    \A f \in 1..config.files :
        Pos(log, "ValueError", f) > 0 =>
            /\ Pos(log, "ValueError", f) < Len(log)
            /\ log[Pos(log, "ValueError", f) + 1] = Ev("Warning", f)
            /\ pc \in {"update", "finish_release", "post_finish_release", "done", "raised"}
            /\ pc = "update" => file_i > f
            /\ pc # "update" =>
                  /\ \A g \in 1..config.files : UpdateAt(g) > 0
                  /\ At("to_file") > 0
            /\ (vcs_configuration # None /\ pc \in {"post_finish_release", "done", "raised"})
                  => At("finish_release") > 0

\* C4 witness: a run with a VCS has ended normally after the first file
\* failed with a pattern mismatch and the last one was updated.
C4_Witness ==
    /\ pc = "done"
    /\ config.files = MaxFiles
    /\ Pos(log, "ValueError", 1) > 0
    /\ Pos(log, "ValueError", config.files) = 0
    /\ Completed("finish_release")

\* C5 (as claimed): a run that finds the requested action undefined, or its
\* configuration without 'type', has printed a message, has made no update,
\* no to_file and no lifecycle call, and ends with a non-zero status.
C5_UndefinedActionIsFatal ==
    (Happened("print_action_not_defined") \/ Happened("print_missing_type")) =>
        /\ Terminated
        /\ status # 0
        /\ \A i \in 1..Len(log) : log[i].op \notin Mutations \cup Lifecycle

\* a failure of the repository collaborator: its construction, or a
\* lifecycle call that raised
RepoFailureAt(i) ==
    \/ log[i].op = "fatal_repo_init"
    \/ log[i].op = "raise" /\ i > 1 /\ log[i - 1].op \in Lifecycle

\* C6: a failure of the repository collaborator, in its construction or in
\* any lifecycle call, ends the run with status 1, and no update and no
\* to_file follows it.
C6_NoMutationAfterRepositoryFailure ==
    \A i \in 1..Len(log) :
        RepoFailureAt(i) =>
            /\ i = Len(log)
            /\ Terminated
            /\ status = 1
            /\ \A j \in (i + 1)..Len(log) : log[j].op \notin Mutations

\* C6 witness: start_release raised and the run is over.
C6_Witness ==
    /\ Failed("start_release")
    /\ pc = "raised"

\* the parts a set action is asked to set, by --set-part or by
\* --action punch:set with --action-options
SetTargets(a) ==
    IF a.set_part # << >> THEN a.set_part
    ELSE IF a.part = "" /\ a.action = "punch:set" THEN a.action_options
    ELSE << >>

\* C7 (as claimed): with --reset-on-set and more than one part to set,
\* however the set action was supplied, the run ends with the validation
\* error, status 1, before the configuration is read.
C7_ResetOnSetRejected ==
    (~argv.version /\ ~argv.init /\ argv.reset_on_set /\ Len(SetTargets(argv)) > 1) =>
        /\ ~Happened("PunchConfig")
        /\ pc # "start" =>
              pc = "exit" /\ status = 1 /\ log = << Ev("fatal_reset_on_set", 0) >>

\* C8 (as claimed): with one part in --set-part and --reset-on-set, the
\* dictionary given to the Set action carries the reset request, and in the
\* new version every part after the set one is zero.
C8_ResetReachesSetAction ==
    (argv.reset_on_set /\ Len(argv.set_part) = 1 /\ Completed("process_version")) =>
        /\ "reset_on_set" \in DOMAIN action_dict
        /\ \A p \in PartNames :
              PartIdx(p) > PartIdx(argv.set_part[1][1]) => new_version[p] = 0

\* C9 (as claimed): no warning is printed before update has been called for
\* every configured file.
C9_WarningsOnlyAfterAllUpdates ==
    \A i \in 1..Len(log) :
        log[i].op = "Warning" =>
            \A f \in 1..config.files : 0 < UpdateAt(f) /\ UpdateAt(f) < i

\* C9 (amended): every ValueError of an update is followed at once by the
\* warning for that file, and a warning is printed right after the failed
\* update of its own file, before update is called for any later file and
\* before to_file.
C9_WarningRightAfterItsUpdate ==
    /\ \A i \in 1..Len(log) :
          log[i].op = "ValueError" =>
              i < Len(log) /\ log[i + 1] = Ev("Warning", log[i].file)
    /\ \A i \in 1..Len(log) :
          log[i].op = "Warning" =>
              /\ i > 2
              /\ log[i - 1] = Ev("ValueError", log[i].file)
              /\ log[i - 2] = Ev("update", log[i].file)
              /\ \A j \in 1..(i - 1) : log[j].op = "update" => log[j].file <= log[i].file
              /\ At("to_file") = 0 \/ i < At("to_file")

\* C9 witness: the warning for the first file is in the trace before the
\* update of the second.
C9_Witness ==
    /\ Pos(log, "Warning", 1) > 0
    /\ UpdateAt(2) > Pos(log, "Warning", 1)

\* the action a command line asks for, and its options
RequestedAction(a) ==
    IF a.set_part # << >> THEN "punch:set"
    ELSE IF a.part # "" THEN "punch:increase" ELSE a.action

RequestedOptions(a) ==
    IF a.set_part # << >> THEN a.set_part
    ELSE IF a.part # "" THEN << <<"part", a.part>> >> ELSE a.action_options

\* C10: the version store is read at most once and process_version is called
\* at most once, and exactly once in a run that reaches the rendering; the
\* action is the one of --set-part if given, else of --part if given, else
\* of --action; the new version is that action's result on the loaded
\* value; the current version stays the value loaded from the store.
C10_ExactlyOneAction ==
    /\ Count(log, "from_file") <= 1
    /\ Count(log, "process_version") <= 1
    /\ (pc = "render" \/ Happened("run_main_serializer")) => Completed("process_version")
    /\ Happened("process_version") =>
          /\ args.action = RequestedAction(argv)
          /\ args.action_options = RequestedOptions(argv)
    /\ Completed("process_version") =>
          new_version =
              process_version(IF args.action = "punch:set" THEN "set" ELSE "increase",
                              action_dict, current_version).version
    /\ (current_version # NoVersion /\ ~Happened("to_file")) =>
          current_version = version_file
    /\ Happened("to_file") => version_file = new_version

\* C10 witness: --part, --set-part and --action were all given, the Set
\* action has been applied and the new version differs from the current one.
C10_Witness ==
    /\ argv.part = "minor" /\ argv.set_part # << >> /\ argv.action = "custom"
    /\ pc = "render"
    /\ args.action = "punch:set"
    /\ Completed("process_version")
    /\ new_version # current_version

====
